---- MODULE Spec2Model ----
(***************************************************************************)
(* SQL backend of teleport (lib/backend/sqlbk, lib/backend/postgres):      *)
(* the background worker (start, run, poll, purge), the transaction        *)
(* contract it runs on, and writer transactions against the same database. *)
(*                                                                         *)
(* The worker (background.go) and the error translation (driver.go) are    *)
(* translated from the source.  The Tx implementation and the writer       *)
(* operations of the backend are not part of the source tree at hand; they *)
(* follow the Tx interface and the written specification of the data-plane *)
(* operations.  The engine is serializable: a transaction works on the     *)
(* snapshot taken when it begins and its commit is validated against the   *)
(* database as it is then; EventIDs follow commit order.                   *)
(***************************************************************************)
EXTENDS Integers, Sequences, FiniteSets, TLC

\* ------------------------------------------------------------------ bounds
MaxTime == 2
MaxWall == 1
MaxEventID == 2
BufferSize == 2

\* newID reads time.Now().UnixNano(): a reading of the order of 10^18, scaled.
NanoEpoch == 1000

Keys == {1}
FirstKey == CHOOSE k \in Keys : \A j \in Keys : k <= j
LastKey == CHOOSE k \in Keys : \A j \in Keys : j <= k
Writers == {1, 2}

\* The expires column of a lease that never expires (NULL).
NoExpiry == 0

\* The value written with an ID: one value per ID, so that a read tells the
\* writes apart.
ValueOf(id) == id - NanoEpoch + 1

\* ------------------------------------------------------------------ errors
Nil == "nil"
ErrRetry == "ErrRetry"
Native == {"nil", "ErrNoRows", "23505", "40001", "25006", "Canceled", "Other"}

\* convertError that does not know the no-rows error.
convertErrorNoRowsAsGeneric(err) ==
    CASE err = "nil" -> Nil
      [] err = "23505" -> "AlreadyExists"
      [] err = "40001" -> ErrRetry
      [] err = "Canceled" -> "Wrap(Canceled)"
      [] err = "25006" -> "Wrap(25006)"
      [] err = "ErrNoRows" -> "Wrap(ErrNoRows)"
      [] OTHER -> "Wrap(Other)"

\* convertError that takes a serialization failure for any other error.
convertErrorRetryAsGeneric(err) ==
    CASE err = "nil" -> Nil
      [] err = "ErrNoRows" -> "NotFound"
      [] err = "23505" -> "AlreadyExists"
      [] err = "Canceled" -> "Wrap(Canceled)"
      [] err = "25006" -> "Wrap(25006)"
      [] err = "40001" -> "Wrap(40001)"
      [] OTHER -> "Wrap(Other)"

convertError(err) ==
    CASE err = "nil" -> Nil
      [] err = "ErrNoRows" -> "NotFound"
      [] err = "23505" -> "AlreadyExists"
      [] err = "40001" -> ErrRetry
      [] err = "Canceled" -> "Wrap(Canceled)"
      [] err = "25006" -> "Wrap(25006)"
      [] OTHER -> "Wrap(Other)"

\* ------------------------------------------------------------------ rows
OpPut == "Put"
OpDelete == "Delete"

Lease(k, id, exp) == [key |-> k, id |-> id, expires |-> exp]
Item(k, id, v) == [key |-> k, id |-> id, value |-> v]
Event(eid, ty, k, id) == [eventid |-> eid, type |-> ty, key |-> k, id |-> id]

EmptyDB == [leases |-> {}, items |-> {}, events |-> {}, seq |-> 0]

\* GetExpiredLeases: the expires column is set and less than or equal to the
\* current time.
Expired(l, t) == l.expires # NoExpiry /\ l.expires <= t

\* DeleteExpiredLeases: the expires column is not null and less than the
\* current time.
Lapsed(l, t) == l.expires # NoExpiry /\ l.expires < t

Max(S) == CHOOSE x \in S : \A y \in S : y <= x

\* The elements of a set of events in ascending EventID order.
RECURSIVE SortedEvents(_)
SortedEvents(S) ==
    IF S = {} THEN <<>>
    ELSE LET m == CHOOSE e \in S : \A f \in S : e.eventid <= f.eventid
         IN <<m>> \o SortedEvents(S \ {m})

Take(s, n) == SubSeq(s, 1, IF n < Len(s) THEN n ELSE Len(s))

\* Every ordering of a finite set, as sequences.
Orderings(S) ==
    {s \in [1..Cardinality(S) -> S] : \A i, j \in 1..Cardinality(S) : i # j => s[i] # s[j]}

\* ------------------------------------------------------------------ Tx
\* A transaction: the stored error (Nil while Active), whether it is read-only,
\* whether it has written, whether a commit of another transaction has
\* overtaken its writes, the last EventID assigned when it began, and its
\* working copy of the database (the snapshot it began on, with its own
\* writes).  A Failed transaction is rolled back and holds nothing.
FailedTx(e, readOnly) ==
    [err |-> e, ro |-> readOnly, wrote |-> FALSE, stale |-> FALSE, base |-> 0,
     work |-> EmptyDB]

\* begin dropping the error of BeginTx.
NewTxDroppingError(d, readOnly, nativeErr) ==
    [err |-> Nil, ro |-> readOnly, wrote |-> FALSE, stale |-> FALSE, base |-> d.seq,
     work |-> d]

NewTx(d, readOnly, nativeErr) ==
    IF convertError(nativeErr) # Nil THEN FailedTx(convertError(nativeErr), readOnly)
    ELSE [err |-> Nil, ro |-> readOnly, wrote |-> FALSE, stale |-> FALSE, base |-> d.seq,
          work |-> d]

\* A data-plane call that fails in the engine stores the translated error;
\* a transaction already Failed keeps its error.
FailTx(t, nativeErr) ==
    IF t.err # Nil \/ convertError(nativeErr) = Nil THEN t
    ELSE FailedTx(convertError(nativeErr), t.ro)

\* A mutating call that a read-only transaction lets through.
MutateReadOnlyToo(t, work) ==
    IF t.err # Nil THEN t
    ELSE [t EXCEPT !.work = work, !.wrote = @ \/ work # t.work]

\* A mutating call that does not look at the transaction's error.
MutateAfterFailure(t, work) ==
    IF t.ro THEN FailTx(t, "25006")
    ELSE [t EXCEPT !.work = work, !.wrote = @ \/ work # t.work]

\* A mutating call on a read-only transaction fails it.
Mutate(t, work) ==
    IF t.err # Nil THEN t
    ELSE IF t.ro THEN FailTx(t, "25006")
    ELSE [t EXCEPT !.work = work, !.wrote = @ \/ work # t.work]

\* An engine that lets a transaction commit after another one's writes.
OvertakenUnnoticed(t) == t

\* What the commit of another transaction's writes does to an open one: a
\* transaction that has written can no longer commit.
Overtaken(t) ==
    IF t.err = Nil /\ t.wrote THEN [t EXCEPT !.stale = TRUE, !.base = 0, !.work = EmptyDB]
    ELSE t

TxGetLastEventID(t) ==
    IF t.err # Nil \/ t.work.events = {} THEN 0
    ELSE Max({e.eventid : e \in t.work.events})

TxGetExpiredLeases(t, now) ==
    IF t.err # Nil THEN {} ELSE {l \in t.work.leases : Expired(l, now)}

TxInsertEvent(t, ty, k, id) ==
    IF t.err = Nil /\ ~t.ro /\ t.work.seq >= MaxEventID THEN FailTx(t, "Other")
    ELSE Mutate(t, [t.work EXCEPT !.seq = @ + 1,
                             !.events = @ \cup {Event(t.work.seq + 1, ty, k, id)}])

\* GetEvents that also returns the event with the ID it is to read after.
TxGetEventsListInclusive(t, fromEventID, limit) ==
    IF t.err # Nil THEN <<>>
    ELSE Take(SortedEvents({e \in t.work.events : e.eventid >= fromEventID}), limit)

TxGetEventsList(t, fromEventID, limit) ==
    IF t.err # Nil THEN <<>>
    ELSE Take(SortedEvents({e \in t.work.events : e.eventid > fromEventID}), limit)

TxGetEventsLast(t, fromEventID, limit) ==
    LET evs == TxGetEventsList(t, fromEventID, limit)
    IN IF evs = <<>> THEN fromEventID ELSE evs[Len(evs)].eventid

\* DeleteExpiredLeases that takes deleting no row for a failure.
TxDeleteExpiredLeasesNeedsRows(t, now) ==
    IF t.err = Nil /\ ~t.ro /\ ~\E l \in t.work.leases : Lapsed(l, now)
    THEN FailTx(t, "ErrNoRows")
    ELSE Mutate(t, [t.work EXCEPT !.leases = {l \in @ : ~Lapsed(l, now)}])

TxDeleteExpiredLeases(t, now) ==
    Mutate(t, [t.work EXCEPT !.leases = {l \in @ : ~Lapsed(l, now)}])

TxDeleteEvents(t, beforeEventID) ==
    Mutate(t, [t.work EXCEPT !.events = {e \in @ : e.eventid > beforeEventID}])

TxDeleteItems(t, beforeEventID, now) ==
    Mutate(t, [t.work EXCEPT !.items =
        {i \in @ : ~(/\ i.id <= beforeEventID
                     /\ ~\E l \in t.work.leases :
                           l.key = i.key /\ l.id = i.id /\ ~Expired(l, now)
                     /\ ~\E e \in t.work.events :
                           e.key = i.key /\ e.id = i.id /\ e.eventid > beforeEventID)}])

\* InsertItem that does not notice that the ID is taken.
TxInsertItemUnchecked(t, k, v, id) ==
    Mutate(t, [t.work EXCEPT !.items = @ \cup {Item(k, id, v)}])

TxInsertItem(t, k, v, id) ==
    IF t.err # Nil THEN t
    ELSE IF t.ro THEN FailTx(t, "25006")
    ELSE IF \E i \in t.work.items : i.key = k /\ i.id = id THEN FailedTx(ErrRetry, t.ro)
    ELSE Mutate(t, [t.work EXCEPT !.items = @ \cup {Item(k, id, v)}])

\* UpsertLease adding a row next to the one the key has.
TxUpsertLeaseAddsRow(t, k, id, exp) ==
    Mutate(t, [t.work EXCEPT !.leases = @ \cup {Lease(k, id, exp)}])

TxUpsertLease(t, k, id, exp) ==
    Mutate(t, [t.work EXCEPT !.leases = {l \in @ : l.key # k} \cup {Lease(k, id, exp)}])

TxUpdateLease(t, k, id, exp) ==
    IF t.err # Nil THEN t
    ELSE IF t.ro THEN FailTx(t, "25006")
    ELSE IF ~\E l \in t.work.leases : l.key = k THEN FailTx(t, "ErrNoRows")
    ELSE Mutate(t, [t.work EXCEPT !.leases = {l \in @ : l.key # k} \cup {Lease(k, id, exp)}])

\* The item ID the deleted lease bound; zero when nothing was deleted.
TxDeleteLeaseID(t, k) ==
    IF t.err # Nil \/ t.ro \/ ~\E l \in t.work.leases : l.key = k THEN 0
    ELSE (CHOOSE l \in t.work.leases : l.key = k).id

TxDeleteLease(t, k) ==
    Mutate(t, [t.work EXCEPT !.leases = {l \in @ : l.key # k}])

TxDeleteLeaseRangeItems(t, startKey, endKey) ==
    IF t.err # Nil \/ t.ro THEN {}
    ELSE {l \in t.work.leases : startKey <= l.key /\ l.key <= endKey}

TxDeleteLeaseRange(t, startKey, endKey) ==
    Mutate(t, [t.work EXCEPT !.leases = {l \in @ : ~(startKey <= l.key /\ l.key <= endKey)}])

TxLeaseExists(t, k, now) ==
    t.err = Nil /\ \E l \in t.work.leases : l.key = k /\ ~Expired(l, now)

\* GetItem: the item the key's live lease binds; NoItem when there is none.
NoItem == Item(0, 0, 0)
\* GetItem returning the item of a lease whatever its expires column.
TxGetItemOfAnyLease(t, k, now) ==
    IF t.err # Nil THEN NoItem
    ELSE LET hits == {i \in t.work.items :
                        \E l \in t.work.leases : l.key = k /\ i.key = k /\ i.id = l.id}
         IN IF hits = {} THEN NoItem ELSE CHOOSE i \in hits : TRUE

TxGetItem(t, k, now) ==
    IF t.err # Nil THEN NoItem
    ELSE LET hits == {i \in t.work.items :
                        \E l \in t.work.leases :
                            l.key = k /\ ~Expired(l, now) /\ i.key = k /\ i.id = l.id}
         IN IF hits = {} THEN NoItem ELSE CHOOSE i \in hits : TRUE

\* Commit validation of the engine: a transaction that wrote commits only on
\* the database it began on; otherwise the engine reports 40001.
CanCommit(t) == ~t.stale

\* Insert one event per lease, in the order given.
RECURSIVE InsertEvents(_, _, _)
InsertEvents(t, ty, ls) ==
    IF ls = <<>> THEN t
    ELSE InsertEvents(TxInsertEvent(t, ty, ls[1].key, ls[1].id), ty, Tail(ls))

\* Commit that takes a failed commit of the engine for a success.
TxCommitIgnoresFailure(t, nativeErr) == t

\* Commit: a Failed transaction returns its stored error; an Active one
\* becomes Failed with the translated error when the engine's commit fails.
TxCommit(t, nativeErr) == FailTx(t, nativeErr)

\* Rollback that leaves the error of a transaction already in an error state.
TxRollbackKeepsError(t, nativeErr) ==
    IF t.err # Nil THEN t
    ELSE IF convertError(nativeErr) # Nil THEN FailedTx(convertError(nativeErr), t.ro)
    ELSE FailedTx("BadParameter", t.ro)

\* Rollback: the error passed is converted and stored, also over the error of
\* a transaction already in an error state; a nil error is a bug of the caller
\* and is replaced by a generated error unless the transaction already holds
\* one.  The transaction's writes are dropped.
TxRollback(t, nativeErr) ==
    IF convertError(nativeErr) # Nil THEN FailedTx(convertError(nativeErr), t.ro)
    ELSE IF t.err # Nil THEN FailedTx(t.err, t.ro)
    ELSE FailedTx("BadParameter", t.ro)

\* A commit that succeeds although the transaction's context is cancelled.
CommitOutcomesDeafToCancel(t, cancelled) ==
    {"Other"} \cup (IF CanCommit(t) THEN {"nil"} ELSE {"40001"})

\* The results the engine's commit can have for an Active transaction.
CommitOutcomes(t, cancelled) ==
    {"Other"}
      \cup (IF cancelled THEN {"Canceled"} ELSE {})
      \cup (IF CanCommit(t) THEN {} ELSE {"40001"})
      \cup (IF CanCommit(t) /\ ~cancelled THEN {"nil"} ELSE {})

\* The database after a transaction's Commit returned the error e.
Committed(d, t) == IF t.err = Nil /\ t.wrote THEN t.work ELSE d

\* The events a committed transaction added, in the order it inserted them.
NewEvents(t) ==
    IF t.err = Nil /\ t.wrote
    THEN SortedEvents({e \in t.work.events : e.eventid > t.base})
    ELSE <<>>

\* The results of BeginTx: a cancelled context fails it.
BeginOutcomes(cancelled) == IF cancelled THEN {"Canceled"} ELSE {"nil", "Other"}

\* ------------------------------------------------------------------ configuration
\* Durations are counted in milliseconds.
DefaultPurgePeriod == 10000
DefaultDatabase == "teleport"
DefaultRetryDelayPeriod == 250
DefaultConnMaxIdleTime == 0
DefaultConnMaxLifetime == 0
DefaultMaxIdleConns == 2
DefaultMaxOpenConns == 50
DefaultBufferCapacity == 1024
DefaultPollStreamPeriod == 1000

\* The values a Config is given: strings unset or set, periods and the buffer
\* size negative, unset or positive, pool settings unset or positive.
Texts == {"", "set"}
Periods == {-1, 0, 1}
Sizes == {-1, 0, 1}
Settings == {0, 1}
Configs ==
    [Log : BOOLEAN, Clock : BOOLEAN, Addr : Texts, Database : Texts,
     TLS : [ClientKeyFile : Texts, ClientCertFile : Texts, CAFile : Texts],
     BufferSize : Sizes, PollStreamPeriod : Periods, PurgePeriod : Periods,
     RetryDelayPeriod : Periods, ConnMaxIdleTime : Settings,
     ConnMaxLifetime : Settings, MaxIdleConns : Settings, MaxOpenConns : Settings]

\* The zero value of Config.
ZeroConfig ==
    [Log |-> FALSE, Clock |-> FALSE, Addr |-> "", Database |-> "",
     TLS |-> [ClientKeyFile |-> "", ClientCertFile |-> "", CAFile |-> ""],
     BufferSize |-> 0, PollStreamPeriod |-> 0, PurgePeriod |-> 0,
     RetryDelayPeriod |-> 0, ConnMaxIdleTime |-> 0,
     ConnMaxLifetime |-> 0, MaxIdleConns |-> 0, MaxOpenConns |-> 0]

\* CheckAndSetDefaults that puts the defaults over the values that were set.
CheckAndSetDefaultsOverwrites(c) ==
    IF ~c.Log \/ ~c.Clock \/ c.Addr = "" \/ c.TLS.CAFile = ""
       \/ c.TLS.ClientKeyFile = "" \/ c.TLS.ClientCertFile = ""
    THEN [err |-> "BadParameter", c |-> c]
    ELSE [err |-> Nil,
          c |-> [c EXCEPT !.Database = DefaultDatabase,
                          !.BufferSize = DefaultBufferCapacity,
                          !.PollStreamPeriod = DefaultPollStreamPeriod,
                          !.PurgePeriod = DefaultPurgePeriod,
                          !.RetryDelayPeriod = DefaultRetryDelayPeriod,
                          !.MaxOpenConns = DefaultMaxOpenConns,
                          !.ConnMaxIdleTime = DefaultConnMaxIdleTime,
                          !.ConnMaxLifetime = DefaultConnMaxLifetime,
                          !.MaxIdleConns = DefaultMaxIdleConns]]

\* sqlbk.Config.CheckAndSetDefaults: the error it returns and the Config it
\* leaves.
CheckAndSetDefaults(c) ==
    IF ~c.Log THEN [err |-> "BadParameter", c |-> c]
    ELSE IF ~c.Clock THEN [err |-> "BadParameter", c |-> c]
    ELSE IF c.Addr = "" THEN [err |-> "BadParameter", c |-> c]
    ELSE IF c.TLS.CAFile = "" THEN [err |-> "BadParameter", c |-> c]
    ELSE IF c.TLS.ClientKeyFile = "" THEN [err |-> "BadParameter", c |-> c]
    ELSE IF c.TLS.ClientCertFile = "" THEN [err |-> "BadParameter", c |-> c]
    ELSE [err |-> Nil,
          c |-> [c EXCEPT
                   !.Database = IF @ = "" THEN DefaultDatabase ELSE @,
                   !.BufferSize = IF @ <= 0 THEN DefaultBufferCapacity ELSE @,
                   !.PollStreamPeriod = IF @ <= 0 THEN DefaultPollStreamPeriod ELSE @,
                   !.PurgePeriod = IF @ <= 0 THEN DefaultPurgePeriod ELSE @,
                   !.RetryDelayPeriod = IF @ = 0 THEN DefaultRetryDelayPeriod ELSE @,
                   !.MaxOpenConns = IF @ = 0 THEN DefaultMaxOpenConns ELSE @,
                   !.ConnMaxIdleTime = IF @ = 0 THEN DefaultConnMaxIdleTime ELSE @,
                   !.ConnMaxLifetime = IF @ = 0 THEN DefaultConnMaxLifetime ELSE @,
                   !.MaxIdleConns = IF @ = 0 THEN DefaultMaxIdleConns ELSE @]]

\* postgres.Config.CheckAndSetDefaults: a missing Log and Clock are supplied
\* before the embedded Config is checked.
pgCheckAndSetDefaults(c) ==
    CheckAndSetDefaults([c EXCEPT !.Log = TRUE, !.Clock = TRUE])

\* A Config as it was built, as it is now, the error of the last
\* CheckAndSetDefaults on it, which of the two methods that was, and how many
\* times one was applied.
MaxChecks == 2
NewConfig(c) == [in |-> c, c |-> c, err |-> Nil, by |-> "none", n |-> 0]
NoConfig == NewConfig(ZeroConfig)

\* ------------------------------------------------------------------ state
VARIABLES
    db,          \* the committed database
    now,         \* the backend's clock (Config.Clock)
    closed,      \* closeCtx is done
    wr,          \* the writers' transactions
    wpc,         \* where the worker is
    eventID,     \* run's watermark
    loggedError, \* run's loggedError
    wtx,         \* the open transaction of the worker's cycle
    bufInit,     \* buf.SetInit was called
    emitted,     \* history: the EventIDs passed to buf.Emit, in order
    history,     \* history: every committed event, in commit order
    seed,        \* history: the event ID start read
    startEvents, \* history: the EventIDs present when start read the seed
    lastWrite,   \* history: per key, the last committed write
    txn,         \* the transactions of the callers of the Tx interface
    call,        \* history: the last call made on a Tx
    obs,         \* history: the worker's open transactions and log lines
    cfg          \* a Config and the result of CheckAndSetDefaults on it

vars == <<db, now, closed, wr, wpc, eventID, loggedError, wtx,
          bufInit, emitted, history, seed, startEvents, lastWrite, txn, call,
          obs, cfg>>

NoTx == NewTx(EmptyDB, FALSE, "nil")
NoOp == [kind |-> "none", key |-> 0, value |-> 0, expires |-> 0, id |-> 0]
NoCycle == [tx |-> NoTx, early |-> FALSE, lastEventID |-> 0, events |-> <<>>]
NoWrite == [present |-> FALSE, value |-> 0, expires |-> 0, id |-> 0]

\* The callers of the Tx interface, each with at most one transaction: its
\* state (none, active, committed, failed), the transaction, and the number of
\* data-plane calls the caller has made.  The last call made by any caller is kept with the state its
\* transaction was in, whether it repeats the call before it on the same
\* transaction, and what it returned.
Sessions == {1}
NoSession == [st |-> "none", tx |-> NoTx, calls |-> 0]
NoCall ==
    [s |-> 0,
     c |-> [op |-> "none", k |-> 0, id |-> 0, v |-> 0, exp |-> 0, n |-> 0, lim |-> 0,
            ty |-> OpPut],
     native |-> "nil", was |-> "none", again |-> FALSE,
     out |-> [n |-> 0, rows |-> {}, events |-> <<>>, ok |-> FALSE]]

\* What is observed of the worker: what start met (the results of Begin, of
\* the query and of Commit) and returned, the number of poll and purge transactions
\* begun and not ended, the native error of the Begin of the open one, the
\* length of the unbroken run of failing cycles (counted up to MaxStreak), and
\* whether run wrote a log line after the last cycle.
MaxStreak == 2
NoObs ==
    [open |-> 0, begin |-> "nil", streak |-> 0, logged |-> FALSE,
     start |-> [begin |-> "nil", query |-> "none", commit |-> "nil", err |-> "nil"]]

\* The database the backend is started on: empty, or holding the rows and the
\* event of an earlier committed Put.
OlderDB ==
    [leases |-> {Lease(FirstKey, NanoEpoch, NoExpiry)},
     items |-> {Item(FirstKey, NanoEpoch, ValueOf(NanoEpoch))},
     events |-> {Event(1, OpPut, FirstKey, NanoEpoch)},
     seq |-> 1]

\* The tables left by a run that was stopped after a poll cycle had inserted
\* the Delete event of a lease that expires at the first clock reading, the
\* events before it purged.
ExpiredDB ==
    [leases |-> {Lease(FirstKey, NanoEpoch, 1)},
     items |-> {Item(FirstKey, NanoEpoch, ValueOf(NanoEpoch))},
     events |-> {Event(1, OpDelete, FirstKey, NanoEpoch)},
     seq |-> 1]

Init ==
    /\ db \in {EmptyDB, OlderDB, ExpiredDB}
    /\ now = 1
    /\ closed = FALSE
    /\ wr = [w \in Writers |-> [st |-> "idle", tx |-> NoTx, op |-> NoOp]]
    /\ wpc = "init"
    /\ eventID = 0
    /\ loggedError = FALSE
    /\ wtx = NoCycle
    /\ bufInit = FALSE
    /\ emitted = <<>>
    /\ history = SortedEvents(db.events)
    /\ seed = 0
    /\ startEvents = {}
    /\ lastWrite = [k \in Keys |->
                       IF \E l \in db.leases : l.key = k
                       THEN LET l == CHOOSE l \in db.leases : l.key = k
                            IN [present |-> TRUE, value |-> ValueOf(l.id),
                                expires |-> l.expires, id |-> l.id]
                       ELSE NoWrite]
    /\ txn = [s \in Sessions |-> NoSession]
    /\ call = NoCall
    /\ obs = NoObs
    /\ cfg = NoConfig

\* ------------------------------------------------------------------ clocks
Tick ==
    /\ ~closed
    /\ now < MaxTime
    /\ now' = now + 1
    /\ UNCHANGED <<cfg, obs, txn, call, db, closed, wr, wpc, eventID, loggedError, wtx,
                   bufInit, emitted, history, seed, startEvents, lastWrite>>

\* ------------------------------------------------------------------ writers
\* Put: InsertItem, UpsertLease, InsertEvent(Put).
putTx(d, k, v, exp, id) ==
    TxInsertEvent(TxUpsertLease(TxInsertItem(NewTx(d, FALSE, "nil"), k, v, id), k, id, exp),
                  OpPut, k, id)

\* Update: InsertItem, UpdateLease (NotFound without a lease), InsertEvent(Put).
updateTx(d, k, v, exp, id) ==
    TxInsertEvent(TxUpdateLease(TxInsertItem(NewTx(d, FALSE, "nil"), k, v, id), k, id, exp),
                  OpPut, k, id)

\* Delete: DeleteLease; NotFound when it returns zero, else InsertEvent(Delete).
deleteTx(d, k) ==
    LET t0 == NewTx(d, FALSE, "nil")
        id == TxDeleteLeaseID(t0, k)
    IN IF id = 0 THEN FailTx(t0, "ErrNoRows")
       ELSE TxInsertEvent(TxDeleteLease(t0, k), OpDelete, k, id)

\* DeleteRange: DeleteLeaseRange, then InsertEvent(Delete) for each lease removed.
deleteRangeTx(d, startKey, endKey) ==
    LET t0 == NewTx(d, FALSE, "nil")
        gone == TxDeleteLeaseRangeItems(t0, startKey, endKey)
        ls == [i \in 1..Cardinality(gone) |->
                 CHOOSE l \in gone : Cardinality({m \in gone : m.key < l.key}) = i - 1]
    IN InsertEvents(TxDeleteLeaseRange(t0, startKey, endKey), OpDelete, ls)

\* newID: a reading of the wall clock, which two calls can read alike.
newIDs == {NanoEpoch + i : i \in 0..MaxWall}

\* The writes a writer can make.
WriteOps ==
    {[kind |-> "put", key |-> k, value |-> ValueOf(i), expires |-> e, id |-> i] :
        k \in Keys, e \in {NoExpiry} \cup {t \in {now, now + 1} : t <= MaxTime}, i \in newIDs}
      \cup {[kind |-> "update", key |-> k, value |-> ValueOf(i), expires |-> NoExpiry, id |-> i] :
        k \in Keys, i \in newIDs}
      \cup [kind : {"delete"}, key : Keys, value : {0}, expires : {0}, id : {0}]
      \cup [kind : {"deleteRange"}, key : {FirstKey}, value : {0}, expires : {0}, id : {0}]

writerTx(d, op) ==
    CASE op.kind = "put" -> putTx(d, op.key, op.value, op.expires, op.id)
      [] op.kind = "update" -> updateTx(d, op.key, op.value, op.expires, op.id)
      [] op.kind = "delete" -> deleteTx(d, op.key)
      [] OTHER -> deleteRangeTx(d, FirstKey, LastKey)

\* A writer opens a transaction and runs its calls; a transaction that fails
\* on the way is rolled back at once.
WriterBegin(w) ==
    /\ wpc \in {"select", "poll", "emit", "purge"}
    /\ ~closed
    /\ wr[w].st = "idle"
    /\ \E op \in WriteOps :
         LET t == writerTx(db, op)
         IN /\ t.err = Nil
            /\ wr' = [wr EXCEPT ![w] = [st |-> "open", tx |-> t, op |-> op]]
    /\ UNCHANGED <<cfg, obs, txn, call, db, now, closed, wpc, eventID, loggedError, wtx,
                   bufInit, emitted, history, seed, startEvents, lastWrite>>

\* What a committed write leaves as the key's last write.
Written(lw, op) ==
    CASE op.kind \in {"put", "update"} ->
           [lw EXCEPT ![op.key] = [present |-> TRUE, value |-> op.value,
                                   expires |-> op.expires, id |-> op.id]]
      [] op.kind = "delete" -> [lw EXCEPT ![op.key] = NoWrite]
      [] OTHER -> [k \in Keys |-> NoWrite]

\* The writers' and the worker's open transactions after transaction t committed.
OthersAfter(t, txs) ==
    IF t.err = Nil /\ t.wrote
    THEN [w \in DOMAIN txs |-> [txs[w] EXCEPT !.tx = Overtaken(@)]]
    ELSE txs

WriterCommit(w) ==
    /\ wr[w].st = "open"
    /\ \E native \in CommitOutcomes(wr[w].tx, FALSE) :
         LET t == TxCommit(wr[w].tx, native)
         IN /\ db' = Committed(db, t)
            /\ history' = history \o NewEvents(t)
            /\ lastWrite' = IF t.err = Nil /\ t.wrote THEN Written(lastWrite, wr[w].op)
                            ELSE lastWrite
            /\ wr' = [OthersAfter(t, wr) EXCEPT ![w] = [st |-> "idle", tx |-> NoTx, op |-> NoOp]]
            /\ wtx' = OthersAfter(t, <<wtx>>)[1]
    /\ UNCHANGED <<cfg, obs, txn, call, now, closed, wpc, eventID, loggedError,
                   bufInit, emitted, seed, startEvents>>

\* ------------------------------------------------------------------ worker
\* start launching the worker from the beginning of the event table.
startFromZero(d, beginErr, failAt, native) ==
    [ok |-> TxCommit(IF failAt = "GetLastEventID"
                     THEN FailTx(NewTx(d, TRUE, beginErr), "Other")
                     ELSE NewTx(d, TRUE, beginErr), native).err = Nil,
     lastEventID |-> 0,
     err |-> IF TxCommit(IF failAt = "GetLastEventID"
                         THEN FailTx(NewTx(d, TRUE, beginErr), "Other")
                         ELSE NewTx(d, TRUE, beginErr), native).err = Nil
             THEN Nil ELSE "ConnectionProblem"]

\* start launching the worker without looking at the result of Commit.
startUnchecked(d, beginErr, failAt, native) ==
    LET tx0 == NewTx(d, TRUE, beginErr)
        tx1 == IF failAt = "GetLastEventID" THEN FailTx(tx0, "Other") ELSE tx0
        lastEventID == TxGetLastEventID(tx1)
    IN [ok |-> TRUE, lastEventID |-> lastEventID, err |-> Nil]

\* start: GetLastEventID in a read-only transaction; on a failed Commit the
\* worker is not launched.
start(d, beginErr, failAt, native) ==
    LET tx0 == NewTx(d, TRUE, beginErr)
        tx1 == IF failAt = "GetLastEventID" THEN FailTx(tx0, "Other") ELSE tx0
        lastEventID == TxGetLastEventID(tx1)
        tx2 == TxCommit(tx1, native)
    IN [ok |-> tx2.err = Nil, lastEventID |-> lastEventID,
        err |-> IF tx2.err = Nil THEN Nil ELSE "ConnectionProblem"]

Start ==
    /\ wpc = "init"
    /\ \E beginErr \in BeginOutcomes(FALSE), failAt \in {"none", "GetLastEventID"},
          native \in {"nil", "Other"} :
         LET r == start(db, beginErr, failAt, native)
         IN /\ obs' = [obs EXCEPT !.start = [begin |-> beginErr, query |-> failAt,
                                             commit |-> native, err |-> r.err]]
            /\ IF r.ok
               THEN /\ bufInit' = TRUE
                    /\ wpc' = "select"
                    /\ eventID' = r.lastEventID
                    /\ seed' = IF db.events = {} THEN 0
                               ELSE Max({e.eventid : e \in db.events})
                    /\ startEvents' = {e.eventid : e \in db.events}
               ELSE /\ wpc' = "failed"
                    /\ UNCHANGED <<bufInit, eventID, seed, startEvents>>
    /\ UNCHANGED <<cfg, txn, call, db, now, closed, wr, loggedError, wtx,
                   emitted, history, lastWrite>>

\* Close: closeCtx is cancelled, once the backend's own calls have returned.
Close ==
    /\ \A w \in Writers : wr[w].st = "idle"
    /\ wpc \in {"select", "poll", "emit", "purge"}
    /\ ~closed
    /\ closed' = TRUE
    /\ UNCHANGED <<cfg, obs, txn, call, db, now, wr, wpc, eventID, loggedError, wtx,
                   bufInit, emitted, history, seed, startEvents, lastWrite>>

\* run returning when a cycle has failed.
RunReturnOnError ==
    /\ wpc = "select"
    /\ closed \/ loggedError
    /\ wpc' = "done"
    /\ UNCHANGED <<cfg, obs, txn, call, db, now, closed, wr, eventID, loggedError, wtx,
                   bufInit, emitted, history, seed, startEvents, lastWrite>>

\* run, case <-b.closeCtx.Done(): return.
RunReturn ==
    /\ wpc = "select"
    /\ closed
    /\ wpc' = "done"
    /\ UNCHANGED <<cfg, obs, txn, call, db, now, closed, wr, eventID, loggedError, wtx,
                   bufInit, emitted, history, seed, startEvents, lastWrite>>

\* run forgetting that it logged an error.
LoggedAfterForgets(e) == FALSE

\* run, after a cycle: a nil error resets loggedError, another one sets it.
LoggedAfter(e) == e # Nil

\* run, after a cycle: whether its error is written to the log.
Logs(e, logged) == e # Nil /\ ~logged

\* What is observed when the worker begins a transaction, when the transaction
\* is ended (by Commit, or by the return of the cycle that began it), and when
\* run has dealt with the error of a cycle.
Begun(o, beginErr) == [o EXCEPT !.open = @ + 1, !.begin = beginErr, !.logged = FALSE]
Ended(o) == [o EXCEPT !.open = @ - 1, !.begin = "nil"]
Returned(o, e, logged) ==
    [o EXCEPT !.streak = IF e = Nil THEN 0 ELSE IF @ < MaxStreak THEN @ + 1 ELSE @,
              !.logged = Logs(e, logged)]

\* poll fetching as many events as the buffer holds.
pollBodyFullBuffer(d, fromEventID, t, beginErr, failAt, order) ==
    LET tx0 == NewTx(d, FALSE, beginErr)
        tx1 == IF failAt = "GetExpiredLeases" THEN FailTx(tx0, "Other") ELSE tx0
        leases == IF tx1.err # Nil THEN <<>> ELSE order
        tx2 == IF failAt = "InsertEvent" /\ leases # <<>> THEN FailTx(tx1, "Other")
               ELSE InsertEvents(tx1, OpDelete, leases)
        early == leases # <<>> /\ tx2.err # Nil
        tx3 == IF failAt = "GetEvents" THEN FailTx(tx2, "Other") ELSE tx2
    IN [tx |-> tx3, early |-> early,
        lastEventID |-> TxGetEventsLast(tx3, fromEventID, BufferSize),
        events |-> TxGetEventsList(tx3, fromEventID, BufferSize)]

\* poll passing over the expired leases that have a Delete event in the table.
pollBodyOncePerLease(d, fromEventID, t, beginErr, failAt, order) ==
    LET tx0 == NewTx(d, FALSE, beginErr)
        tx1 == IF failAt = "GetExpiredLeases" THEN FailTx(tx0, "Other") ELSE tx0
        fresh(l) == ~\E e \in d.events : e.type = OpDelete /\ e.key = l.key /\ e.id = l.id
        leases == IF tx1.err # Nil THEN <<>> ELSE SelectSeq(order, fresh)
        tx2 == IF failAt = "InsertEvent" /\ leases # <<>> THEN FailTx(tx1, "Other")
               ELSE InsertEvents(tx1, OpDelete, leases)
        early == leases # <<>> /\ tx2.err # Nil
        tx3 == IF failAt = "GetEvents" THEN FailTx(tx2, "Other") ELSE tx2
    IN [tx |-> tx3, early |-> early,
        lastEventID |-> TxGetEventsLast(tx3, fromEventID, BufferSize \div 2),
        events |-> TxGetEventsList(tx3, fromEventID, BufferSize \div 2)]

\* poll up to GetEvents: Begin, a Delete event per expired lease (returning at
\* once when InsertEvent fails), GetEvents from the watermark.
pollBody(d, fromEventID, t, beginErr, failAt, order) ==
    LET tx0 == NewTx(d, FALSE, beginErr)
        tx1 == IF failAt = "GetExpiredLeases" THEN FailTx(tx0, "Other") ELSE tx0
        leases == IF tx1.err # Nil THEN <<>> ELSE order
        tx2 == IF failAt = "InsertEvent" /\ leases # <<>> THEN FailTx(tx1, "Other")
               ELSE InsertEvents(tx1, OpDelete, leases)
        early == leases # <<>> /\ tx2.err # Nil
        tx3 == IF failAt = "GetEvents" THEN FailTx(tx2, "Other") ELSE tx2
    IN [tx |-> tx3, early |-> early,
        lastEventID |-> TxGetEventsLast(tx3, fromEventID, BufferSize \div 2),
        events |-> TxGetEventsList(tx3, fromEventID, BufferSize \div 2)]

\* poll returning the watermark it was called with after a successful Commit.
pollResultKeepsWatermark(fromEventID, c, commitErr) ==
    IF c.early THEN [eventID |-> fromEventID, err |-> c.tx.err, events |-> <<>>]
    ELSE IF commitErr # Nil THEN [eventID |-> fromEventID, err |-> commitErr, events |-> <<>>]
    ELSE [eventID |-> fromEventID, err |-> Nil, events |-> c.events]

\* poll returning GetEvents' lastEventID after a failed Commit.
pollResultMovesOnFailure(fromEventID, c, commitErr) ==
    IF c.early THEN [eventID |-> fromEventID, err |-> c.tx.err, events |-> <<>>]
    ELSE IF commitErr # Nil THEN [eventID |-> c.lastEventID, err |-> commitErr, events |-> <<>>]
    ELSE [eventID |-> c.lastEventID, err |-> Nil, events |-> c.events]

\* poll moving the watermark to the newest event of its snapshot, fetched or not.
pollResultJumpsToNewest(fromEventID, c, commitErr) ==
    IF c.early THEN [eventID |-> fromEventID, err |-> c.tx.err, events |-> <<>>]
    ELSE IF commitErr # Nil THEN [eventID |-> fromEventID, err |-> commitErr, events |-> <<>>]
    ELSE [eventID |-> IF TxGetLastEventID(c.tx) > c.lastEventID
                      THEN TxGetLastEventID(c.tx) ELSE c.lastEventID,
          err |-> Nil, events |-> c.events]

\* poll's results: the watermark and error it returns and the events it emits.
pollResult(fromEventID, c, commitErr) ==
    IF c.early THEN [eventID |-> fromEventID, err |-> c.tx.err, events |-> <<>>]
    ELSE IF commitErr # Nil THEN [eventID |-> fromEventID, err |-> commitErr, events |-> <<>>]
    ELSE [eventID |-> c.lastEventID, err |-> Nil, events |-> c.events]

\* A poll tick served on its own goroutine, beside a running purge cycle.
PollBeginBesidePurge ==
    /\ wpc \in {"select", "purge"}
    /\ \E beginErr \in BeginOutcomes(closed),
          failAt \in {"none", "GetExpiredLeases", "InsertEvent", "GetEvents"},
          order \in Orderings(TxGetExpiredLeases(NewTx(db, FALSE, "nil"), now)) :
         /\ wtx' = pollBody(db, eventID, now, beginErr, failAt, order)
         /\ obs' = Begun(obs, beginErr)
    /\ wpc' = "poll"
    /\ UNCHANGED <<cfg, txn, call, db, now, closed, wr, eventID, loggedError,
                   bufInit, emitted, history, seed, startEvents, lastWrite>>

\* run, case <-pollTicker.C, up to the Commit of poll's transaction.
PollBegin ==
    /\ wpc = "select"
    /\ \E beginErr \in BeginOutcomes(closed),
          failAt \in {"none", "GetExpiredLeases", "InsertEvent", "GetEvents"},
          order \in Orderings(TxGetExpiredLeases(NewTx(db, FALSE, "nil"), now)) :
         /\ wtx' = pollBody(db, eventID, now, beginErr, failAt, order)
         /\ obs' = Begun(obs, beginErr)
    /\ wpc' = "poll"
    /\ UNCHANGED <<cfg, txn, call, db, now, closed, wr, eventID, loggedError,
                   bufInit, emitted, history, seed, startEvents, lastWrite>>

\* poll's Commit (or its return after a failed InsertEvent, which cancels the
\* transaction's context): a failure returns to run with the watermark poll
\* was called with; after a success poll holds the events to emit.
PollCommit ==
    /\ wpc = "poll"
    /\ \E native \in CommitOutcomes(wtx.tx, closed) :
         LET t == IF wtx.early THEN wtx.tx ELSE TxCommit(wtx.tx, native)
             r == pollResult(eventID, wtx, t.err)
         IN /\ db' = Committed(db, t)
            /\ history' = history \o NewEvents(t)
            /\ wr' = OthersAfter(t, wr)
            /\ IF r.err # Nil
               THEN /\ wpc' = "select"
                    /\ wtx' = NoCycle
                    /\ eventID' = r.eventID
                    /\ loggedError' = LoggedAfter(r.err)
                    /\ obs' = Returned(Ended(obs), r.err, loggedError)
               ELSE /\ wpc' = "emit"
                    /\ wtx' = [NoCycle EXCEPT !.lastEventID = r.eventID,
                                              !.events = r.events]
                    /\ obs' = Ended(obs)
                    /\ UNCHANGED <<eventID, loggedError>>
    /\ UNCHANGED <<cfg, txn, call, now, closed, bufInit, emitted, seed, startEvents,
                   lastWrite>>

\* poll after a successful Commit: the events are passed to the buffer, and
\* run takes the watermark poll returns and its nil error.
PollEmit ==
    /\ wpc = "emit"
    /\ emitted' = emitted \o wtx.events
    /\ eventID' = wtx.lastEventID
    /\ loggedError' = LoggedAfter(Nil)
    /\ obs' = Returned(obs, Nil, loggedError)
    /\ wpc' = "select"
    /\ wtx' = NoCycle
    /\ UNCHANGED <<cfg, txn, call, db, now, closed, wr, bufInit, history, seed,
                   startEvents, lastWrite>>

\* purge deleting events up to the one after its watermark.
purgeBodyPastWatermark(d, beforeEventID, t, beginErr, failAt) ==
    LET tx0 == NewTx(d, FALSE, beginErr)
        tx1 == IF failAt = "DeleteExpiredLeases" THEN FailTx(tx0, "Other")
               ELSE TxDeleteExpiredLeases(tx0, t)
        tx2 == IF failAt = "DeleteEvents" THEN FailTx(tx1, "Other")
               ELSE TxDeleteEvents(tx1, beforeEventID + 1)
        tx3 == IF failAt = "DeleteItems" THEN FailTx(tx2, "Other")
               ELSE TxDeleteItems(tx2, beforeEventID, t)
    IN [tx |-> tx3, early |-> FALSE, lastEventID |-> beforeEventID, events |-> <<>>]

\* purge up to Commit: Begin, DeleteExpiredLeases, DeleteEvents, DeleteItems.
purgeBody(d, beforeEventID, t, beginErr, failAt) ==
    LET tx0 == NewTx(d, FALSE, beginErr)
        tx1 == IF failAt = "DeleteExpiredLeases" THEN FailTx(tx0, "Other")
               ELSE TxDeleteExpiredLeases(tx0, t)
        tx2 == IF failAt = "DeleteEvents" THEN FailTx(tx1, "Other")
               ELSE TxDeleteEvents(tx1, beforeEventID)
        tx3 == IF failAt = "DeleteItems" THEN FailTx(tx2, "Other")
               ELSE TxDeleteItems(tx2, beforeEventID, t)
    IN [tx |-> tx3, early |-> FALSE, lastEventID |-> beforeEventID, events |-> <<>>]

\* run passing the newest EventID of the table to purge instead of its watermark.
PurgeBeginUpToNewest ==
    /\ wpc = "select"
    /\ \E beginErr \in BeginOutcomes(closed),
          failAt \in {"none", "DeleteExpiredLeases", "DeleteEvents", "DeleteItems"} :
         /\ wtx' = purgeBody(db, TxGetLastEventID(NewTx(db, FALSE, "nil")), now,
                             beginErr, failAt)
         /\ obs' = Begun(obs, beginErr)
    /\ wpc' = "purge"
    /\ UNCHANGED <<cfg, txn, call, db, now, closed, wr, eventID, loggedError,
                   bufInit, emitted, history, seed, startEvents, lastWrite>>

\* run, case <-purgeTicker.C, up to the Commit of purge's transaction.
PurgeBegin ==
    /\ wpc = "select"
    /\ \E beginErr \in BeginOutcomes(closed),
          failAt \in {"none", "DeleteExpiredLeases", "DeleteEvents", "DeleteItems"} :
         /\ wtx' = purgeBody(db, eventID, now, beginErr, failAt)
         /\ obs' = Begun(obs, beginErr)
    /\ wpc' = "purge"
    /\ UNCHANGED <<cfg, txn, call, db, now, closed, wr, eventID, loggedError,
                   bufInit, emitted, history, seed, startEvents, lastWrite>>

\* purge's Commit; its error is run's err.
PurgeCommit ==
    /\ wpc = "purge"
    /\ \E native \in CommitOutcomes(wtx.tx, closed) :
         LET t == TxCommit(wtx.tx, native)
         IN /\ db' = Committed(db, t)
            /\ wr' = OthersAfter(t, wr)
            /\ loggedError' = LoggedAfter(t.err)
            /\ obs' = Returned(Ended(obs), t.err, loggedError)
    /\ wpc' = "select"
    /\ wtx' = NoCycle
    /\ UNCHANGED <<cfg, txn, call, now, closed, eventID, bufInit, emitted, history,
                   seed, startEvents, lastWrite>>

Next ==
    \/ Tick
    \/ \E w \in Writers : WriterBegin(w)
    \/ \E w \in Writers : WriterCommit(w)
    \/ Start
    \/ Close
    \/ RunReturn
    \/ PollBegin
    \/ PollCommit
    \/ PollEmit
    \/ PurgeBegin
    \/ PurgeCommit

Spec == Init /\ [][Next]_vars

\* The worker's scheduling: the transaction of a cycle is bounded by its
\* deadline, so a cycle that began reaches its Commit and its return, and the
\* select, which chooses among its ready cases at random, does not pass over
\* the closeCtx case for ever.
FairSpec ==
    /\ Spec
    /\ WF_vars(PollCommit)
    /\ WF_vars(PollEmit)
    /\ WF_vars(PurgeCommit)
    /\ SF_vars(RunReturn)

\* ------------------------------------------------------------------ Tx callers
\* The Tx interface driven call by call: each caller begins a transaction,
\* makes data-plane calls on it, commits it or rolls it back, and lets go of
\* it.  The arguments are drawn from small sets.
MaxCalls == 2
ItemIDs == {NanoEpoch, NanoEpoch + 1}
Values == {1, 2}
Expiries == 0..MaxTime
EventIDs == 0..MaxEventID
Limits == 1..BufferSize
\* The results of BeginTx, and the errors callers roll back with: none, one
\* of each class of the engine's, one of their own.
BeginErrs == {"nil", "Canceled", "Other"}
RollbackErrs == {"nil", "ErrNoRows", "23505", "40001", "Other"}

MkCall(op, k, id, v, exp, n, lim, ty) ==
    [op |-> op, k |-> k, id |-> id, v |-> v, exp |-> exp, n |-> n, lim |-> lim, ty |-> ty]

Mutating ==
    {"InsertItem", "UpsertLease", "UpdateLease", "DeleteLease", "DeleteLeaseRange",
     "DeleteExpiredLeases", "InsertEvent", "DeleteEvents", "DeleteItems"}

Reading == {"GetLastEventID", "GetEvents", "GetExpiredLeases", "GetItem", "LeaseExists"}

DataCalls ==
    {MkCall("InsertItem", k, id, v, 0, 0, 0, OpPut) : k \in Keys, id \in ItemIDs, v \in Values}
      \cup {MkCall(op, k, id, 0, exp, 0, 0, OpPut) :
              op \in {"UpsertLease", "UpdateLease"}, k \in Keys, id \in ItemIDs, exp \in Expiries}
      \cup {MkCall("DeleteLease", k, 0, 0, 0, 0, 0, OpPut) : k \in Keys}
      \cup {MkCall("InsertEvent", k, id, 0, 0, 0, 0, ty) :
              k \in Keys, id \in ItemIDs, ty \in {OpPut, OpDelete}}
      \cup {MkCall(op, 0, 0, 0, 0, n, 0, OpPut) :
              op \in {"DeleteEvents", "DeleteItems"}, n \in EventIDs}
      \cup {MkCall("GetEvents", 0, 0, 0, 0, n, lim, OpPut) : n \in EventIDs, lim \in Limits}
      \cup {MkCall(op, 0, 0, 0, 0, 0, 0, OpPut) :
              op \in {"DeleteLeaseRange", "DeleteExpiredLeases", "GetLastEventID",
                      "GetExpiredLeases"}}
      \cup {MkCall(op, k, 0, 0, 0, 0, 0, OpPut) : op \in {"GetItem", "LeaseExists"}, k \in Keys}

\* What a call returns: a number, a set of rows, a list of events, a boolean.
ZeroOut == [n |-> 0, rows |-> {}, events |-> <<>>, ok |-> FALSE]

\* One data-plane call on the transaction t at the time t0: the transaction
\* afterwards and what the call returns.
Apply(t, c, t0) ==
    CASE c.op = "InsertItem" ->
           LET u == TxInsertItem(t, c.k, c.v, c.id)
           IN [tx |-> u, out |-> [ZeroOut EXCEPT !.n = IF u.err = Nil THEN c.id ELSE 0]]
      [] c.op = "UpsertLease" ->
           [tx |-> TxUpsertLease(t, c.k, c.id, c.exp), out |-> ZeroOut]
      [] c.op = "UpdateLease" ->
           [tx |-> TxUpdateLease(t, c.k, c.id, c.exp), out |-> ZeroOut]
      [] c.op = "DeleteLease" ->
           [tx |-> TxDeleteLease(t, c.k), out |-> [ZeroOut EXCEPT !.n = TxDeleteLeaseID(t, c.k)]]
      [] c.op = "DeleteLeaseRange" ->
           [tx |-> TxDeleteLeaseRange(t, FirstKey, LastKey),
            out |-> [ZeroOut EXCEPT !.rows = TxDeleteLeaseRangeItems(t, FirstKey, LastKey)]]
      [] c.op = "DeleteExpiredLeases" ->
           [tx |-> TxDeleteExpiredLeases(t, t0), out |-> ZeroOut]
      [] c.op = "InsertEvent" ->
           [tx |-> TxInsertEvent(t, c.ty, c.k, c.id), out |-> ZeroOut]
      [] c.op = "DeleteEvents" ->
           [tx |-> TxDeleteEvents(t, c.n), out |-> ZeroOut]
      [] c.op = "DeleteItems" ->
           [tx |-> TxDeleteItems(t, c.n, t0), out |-> ZeroOut]
      [] c.op = "GetLastEventID" ->
           [tx |-> t, out |-> [ZeroOut EXCEPT !.n = TxGetLastEventID(t)]]
      [] c.op = "GetEvents" ->
           [tx |-> t, out |-> [ZeroOut EXCEPT !.n = TxGetEventsLast(t, c.n, c.lim),
                                              !.events = TxGetEventsList(t, c.n, c.lim)]]
      [] c.op = "GetExpiredLeases" ->
           [tx |-> t, out |-> [ZeroOut EXCEPT !.rows = TxGetExpiredLeases(t, t0)]]
      [] c.op = "GetItem" ->
           [tx |-> t, out |-> [ZeroOut EXCEPT !.rows = {TxGetItem(t, c.k, t0)} \ {NoItem}]]
      [] OTHER ->
           [tx |-> t, out |-> [ZeroOut EXCEPT !.ok = TxLeaseExists(t, c.k, t0)]]

StateOf(t, done) == IF t.err # Nil THEN "failed" ELSE IF done THEN "committed" ELSE "active"

\* The caller's record after a call left its transaction as u.
After(ses, u, done) ==
    [st |-> StateOf(u, done), tx |-> u, calls |-> ses.calls]

\* The databases the callers start on: empty, or holding the rows and the event
\* of an earlier committed Put with any expiry.  The worker has started and
\* waits in its select.

StartDBs ==
    {EmptyDB} \cup {[OlderDB EXCEPT !.leases = {Lease(FirstKey, NanoEpoch, exp)}] :
                       exp \in Expiries}

TxInit ==
    /\ db \in StartDBs
    /\ now \in 1..MaxTime
    /\ closed = FALSE
    /\ wr = [w \in Writers |-> [st |-> "idle", tx |-> NoTx, op |-> NoOp]]
    /\ wpc = "select"
    /\ eventID = TxGetLastEventID(NewTx(db, TRUE, "nil"))
    /\ loggedError = FALSE
    /\ wtx = NoCycle
    /\ bufInit = TRUE
    /\ emitted = <<>>
    /\ history = SortedEvents(db.events)
    /\ seed = eventID
    /\ startEvents = {e.eventid : e \in db.events}
    /\ lastWrite = [k \in Keys |->
                       IF \E l \in db.leases : l.key = k
                       THEN LET l == CHOOSE l \in db.leases : l.key = k
                            IN [present |-> TRUE, value |-> ValueOf(l.id),
                                expires |-> l.expires, id |-> l.id]
                       ELSE NoWrite]
    /\ txn = [s \in Sessions |-> NoSession]
    /\ call = NoCall
    /\ obs = NoObs
    /\ cfg = NoConfig

SessBegin(s) ==
    /\ txn[s].st = "none"
    /\ \E readOnly \in BOOLEAN, native \in BeginErrs :
         LET u == NewTx(db, readOnly, native)
         IN /\ txn' = [txn EXCEPT ![s] =
                          After([NoSession EXCEPT !.calls = txn[s].calls], u, FALSE)]
            /\ call' = [s |-> s, c |-> MkCall("Begin", 0, 0, 0, 0, 0, 0, OpPut),
                        native |-> native, was |-> "none", again |-> FALSE,
                        out |-> ZeroOut]
    /\ UNCHANGED <<cfg, obs, db, now, closed, wr, wpc, eventID, loggedError, wtx,
                   bufInit, emitted, history, seed, startEvents, lastWrite>>

\* A data-plane call.  A transaction whose writes were overtaken is left to
\* Commit and Rollback.
SessCall(s) ==
    /\ txn[s].st \in {"active", "failed"}
    /\ ~txn[s].tx.stale
    /\ txn[s].calls < MaxCalls
    /\ \E c \in DataCalls :
         LET r == Apply(txn[s].tx, c, now)
         IN /\ txn' = [txn EXCEPT ![s] =
                          [After(@, r.tx, FALSE) EXCEPT !.calls = @ + 1]]
            /\ call' = [s |-> s, c |-> c, native |-> "nil", was |-> txn[s].st,
                        again |-> (call.s = s /\ call.c.op = c.op), out |-> r.out]
    /\ UNCHANGED <<cfg, obs, db, now, closed, wr, wpc, eventID, loggedError, wtx,
                   bufInit, emitted, history, seed, startEvents, lastWrite>>

SessCommit(s) ==
    /\ txn[s].st \in {"active", "failed"}
    /\ \E native \in (IF txn[s].tx.err = Nil THEN CommitOutcomes(txn[s].tx, FALSE)
                      ELSE {"nil"}) :
         LET u == TxCommit(txn[s].tx, native)
         IN /\ db' = Committed(db, u)
            /\ txn' = [OthersAfter(u, txn) EXCEPT ![s] = After(txn[s], u, TRUE)]
            /\ call' = [s |-> s, c |-> MkCall("Commit", 0, 0, 0, 0, 0, 0, OpPut),
                        native |-> native, was |-> txn[s].st,
                        again |-> (call.s = s /\ call.c.op = "Commit"), out |-> ZeroOut]
    /\ UNCHANGED <<cfg, obs, now, closed, wr, wpc, eventID, loggedError, wtx,
                   bufInit, emitted, history, seed, startEvents, lastWrite>>

SessRollback(s) ==
    /\ txn[s].st \in {"active", "failed"}
    /\ \E native \in RollbackErrs :
         LET u == TxRollback(txn[s].tx, native)
         IN /\ txn' = [txn EXCEPT ![s] = After(@, u, FALSE)]
            /\ call' = [s |-> s, c |-> MkCall("Rollback", 0, 0, 0, 0, 0, 0, OpPut),
                        native |-> native, was |-> txn[s].st,
                        again |-> (call.s = s /\ call.c.op = "Rollback"), out |-> ZeroOut]
    /\ UNCHANGED <<cfg, obs, db, now, closed, wr, wpc, eventID, loggedError, wtx,
                   bufInit, emitted, history, seed, startEvents, lastWrite>>

\* The caller lets go of a finished transaction.
SessEnd(s) ==
    /\ txn[s].st \in {"committed", "failed"}
    /\ txn' = [txn EXCEPT ![s] = [NoSession EXCEPT !.calls = txn[s].calls]]
    /\ call' = NoCall
    /\ UNCHANGED <<cfg, obs, db, now, closed, wr, wpc, eventID, loggedError, wtx,
                   bufInit, emitted, history, seed, startEvents, lastWrite>>

\* Another transaction inserts an item and commits while the callers'
\* transactions are open.
RivalInsert ==
    /\ \E k \in Keys, id \in ItemIDs :
         LET u == TxCommit(TxInsertItem(NewTx(db, FALSE, "nil"), k, ValueOf(id), id), "nil")
         IN /\ u.err = Nil
            /\ db' = Committed(db, u)
            /\ txn' = OthersAfter(u, txn)
            /\ call' = NoCall
    /\ UNCHANGED <<cfg, obs, now, closed, wr, wpc, eventID, loggedError, wtx,
                   bufInit, emitted, history, seed, startEvents, lastWrite>>

TxNext ==
    \/ \E s \in Sessions : SessBegin(s)
    \/ \E s \in Sessions : SessCall(s)
    \/ \E s \in Sessions : SessCommit(s)
    \/ \E s \in Sessions : SessRollback(s)
    \/ \E s \in Sessions : SessEnd(s)
    \/ RivalInsert

TxSpec == TxInit /\ [][TxNext]_vars
\* ------------------------------------------------------------------ configurations
\* A Config built with any of the values above, checked by the backend's
\* constructor (postgres.New, then sqlbk's own check of the driver's Config).
CfgInit ==
    /\ cfg \in {NewConfig(c) : c \in Configs}
    /\ db = EmptyDB
    /\ now = 1
    /\ closed = FALSE
    /\ wr = [w \in Writers |-> [st |-> "idle", tx |-> NoTx, op |-> NoOp]]
    /\ wpc = "init"
    /\ eventID = 0
    /\ loggedError = FALSE
    /\ wtx = NoCycle
    /\ bufInit = FALSE
    /\ emitted = <<>>
    /\ history = <<>>
    /\ seed = 0
    /\ startEvents = {}
    /\ lastWrite = [k \in Keys |-> NoWrite]
    /\ txn = [s \in Sessions |-> NoSession]
    /\ call = NoCall
    /\ obs = NoObs

Checked(r, by) ==
    [cfg EXCEPT !.c = r.c, !.err = r.err, !.by = by, !.n = @ + 1]

CfgCheck ==
    /\ cfg.n < MaxChecks
    /\ cfg' = Checked(CheckAndSetDefaults(cfg.c), "sqlbk")
    /\ UNCHANGED <<db, now, closed, wr, wpc, eventID, loggedError, wtx, bufInit,
                   emitted, history, seed, startEvents, lastWrite, txn, call, obs>>

PgCfgCheck ==
    /\ cfg.n < MaxChecks
    /\ cfg' = Checked(pgCheckAndSetDefaults(cfg.c), "postgres")
    /\ UNCHANGED <<db, now, closed, wr, wpc, eventID, loggedError, wtx, bufInit,
                   emitted, history, seed, startEvents, lastWrite, txn, call, obs>>

CfgNext == CfgCheck \/ PgCfgCheck

CfgSpec == CfgInit /\ [][CfgNext]_vars

\* ------------------------------------------------------------------ properties
\* C1: the events poll passes to the notification buffer, over all cycles,
\* have strictly increasing EventIDs, every one greater than the watermark
\* seeded at startup: none is delivered twice or out of order.
EmittedStrictlyAscending ==
    /\ \A i, j \in 1..Len(emitted) : i < j => emitted[i].eventid < emitted[j].eventid
    /\ \A i \in 1..Len(emitted) : emitted[i].eventid > seed

\* More events delivered than one poll cycle fetches.
EmittedOverCycles == Len(emitted) > BufferSize \div 2

FailedPollChangesNothing ==
    [][(wpc = "poll" /\ wpc' # "poll") =>
          /\ (wtx.tx.err # Nil \/ wtx.tx.stale \/ closed) => wpc' = "select"
          /\ wpc' = "select" =>
                /\ loggedError'
                /\ eventID' = eventID
                /\ emitted' = emitted
                /\ db' = db
                /\ history' = history]_vars

\* A poll cycle that inserted Delete events and fetched events past the
\* watermark, about to fail at Commit.
PollAboutToFail ==
    /\ wpc = "poll"
    /\ wtx.tx.wrote
    /\ wtx.tx.stale
    /\ wtx.lastEventID > eventID

\* C5: the watermark is seeded before the worker is launched with the last
\* EventID of the table, and no event at or before the seed, that is, present
\* at startup, is ever passed to the notification buffer.
NothingBeforeSeedEmitted ==
    /\ wpc \in {"init", "failed"} => emitted = <<>> /\ ~bufInit
    /\ wpc \notin {"init", "failed"} => bufInit /\ eventID >= seed
    /\ \A i \in 1..Len(emitted) :
          emitted[i].eventid \notin startEvents /\ emitted[i].eventid > seed

\* Events delivered by a worker started on a table that held an event.
EmittedPastOlderEvents == seed >= 1 /\ startEvents # {} /\ Len(emitted) >= 1

PurgedLeasesHaveDeleteEvent ==
    [][(wpc = "purge" /\ wpc' = "select") =>
          \A l \in db.leases \ db'.leases :
              \E i \in 1..Len(history) :
                  /\ history[i].type = OpDelete
                  /\ history[i].key = l.key
                  /\ history[i].id = l.id]_vars

OneLeasePerKey ==
    LET single(L) == \A l, m \in L : l.key = m.key => l = m
    IN /\ single(db.leases)
       /\ single(wtx.tx.work.leases)
       /\ \A w \in Writers : single(wr[w].tx.work.leases)

\* A key written twice: its lease binds one item and an older item remains.
LeaseReplaced ==
    \E l \in db.leases : \E i \in db.items : i.key = l.key /\ i.id # l.id

ConflictLoserRetries ==
    [][\A s \in Sessions :
          /\ (txn[s].st = "active" /\ txn[s].tx.wrote /\ call' = NoCall /\ db' # db)
                => txn'[s].tx.stale
          /\ (txn[s].st = "active" /\ txn[s].tx.stale /\ call'.c.op = "Commit")
                => /\ txn'[s].st = "failed"
                   /\ db' = db
                   /\ call'.native = "40001" => txn'[s].tx.err = ErrRetry
                   /\ \A k \in Keys, id \in ItemIDs, v \in Values :
                        (~\E i \in db'.items : i.key = k /\ i.id = id)
                          => LET u == TxInsertItem(NewTx(db', FALSE, "nil"), k, v, id)
                             IN /\ u.err = Nil
                                /\ "nil" \in CommitOutcomes(u, FALSE)
                                /\ TxCommit(u, "nil").err = Nil
                                /\ Committed(db', TxCommit(u, "nil")).items
                                     = db'.items \cup {Item(k, id, v)}]_vars

\* The Commit of an overtaken transaction has returned ErrRetry, and an ID is
\* left to retry with.
ConflictLoserFailed ==
    /\ call.c.op = "Commit"
    /\ call.was = "active"
    /\ call.native = "40001"
    /\ call.s \in Sessions
    /\ txn[call.s].tx.err = ErrRetry
    /\ \E k \in Keys, id \in ItemIDs : ~\E i \in db.items : i.key = k /\ i.id = id

\* C13: a data-plane call on a Failed transaction changes neither the
\* database nor the transaction, whose error stays the stored one, and returns
\* nothing: zero, no rows, no events, false (GetEvents hands back the
\* fromEventID it was given).
FailedTxCallsAreNoOps ==
    [][\A s \in Sessions :
          (txn[s].st = "failed" /\ txn'[s].calls = txn[s].calls + 1)
            => /\ call'.c.op \in Mutating \cup Reading
               /\ db' = db
               /\ txn'[s].tx = txn[s].tx
               /\ txn'[s].st = "failed"
               /\ txn'[s].tx.err = txn[s].tx.err
               /\ call'.out = [ZeroOut EXCEPT !.n = IF call'.c.op = "GetEvents"
                                                    THEN call'.c.n ELSE 0]]_vars

\* A mutating call was made on a Failed transaction that is not read-only.
MutatingCallOnFailedTx ==
    /\ call.was = "failed"
    /\ call.c.op \in Mutating
    /\ call.s \in Sessions
    /\ ~txn[call.s].tx.ro
    /\ txn[call.s].st = "failed"

\* C14: Commit on an Active transaction either returns nil, leaves it
\* Committed and makes the database its working copy, all its writes at once,
\* or returns the translated error of the engine, leaves it Failed and the
\* database as it was; Commit on a Failed transaction leaves the database and
\* the stored error, which it returns; a Committed or Failed transaction
\* never becomes Active.
CommitIsAllOrNothing ==
    [][\A s \in Sessions :
          /\ (call'.c.op = "Commit" /\ txn[s].st = "active")
                => \/ /\ call'.native = "nil"
                      /\ txn'[s].st = "committed"
                      /\ txn'[s].tx.err = Nil
                      /\ db' = IF txn[s].tx.wrote THEN txn[s].tx.work ELSE db
                   \/ /\ call'.native # "nil"
                      /\ txn'[s].st = "failed"
                      /\ txn'[s].tx.err # Nil
                      /\ txn'[s].tx.err = convertError(call'.native)
                      /\ db' = db
          /\ (call'.c.op = "Commit" /\ txn[s].st = "failed")
                => /\ db' = db
                   /\ txn'[s].st = "failed"
                   /\ txn'[s].tx.err = txn[s].tx.err
          /\ txn[s].st \in {"committed", "failed"} => txn'[s].st # "active"]_vars

\* A transaction with writes has committed and the database is its working
\* copy.
CommittedWithWrites ==
    /\ call.c.op = "Commit"
    /\ call.was = "active"
    /\ call.s \in Sessions
    /\ txn[call.s].st = "committed"
    /\ txn[call.s].tx.wrote
    /\ db = txn[call.s].tx.work

\* C15: once a transaction is in an error state, no call on it changes the
\* error Err returns.
StoredErrorNeverChanges ==
    [][\A s \in Sessions :
          (txn[s].st = "failed" /\ txn'[s].st # "none")
            => txn'[s].tx.err = txn[s].tx.err]_vars

ReadOnlyRejectsWrites ==
    [][\A s \in Sessions :
          (/\ txn[s].st = "active"
           /\ txn[s].tx.ro
           /\ txn'[s].calls = txn[s].calls + 1)
            => /\ db' = db
               /\ call'.c.op \in Mutating
                    => /\ txn'[s].st = "failed"
                       /\ txn'[s].tx.err = "Wrap(25006)"
               /\ call'.c.op \in Reading
                    => /\ txn'[s].st = "active"
                       /\ txn'[s].tx = txn[s].tx]_vars

\* A mutating call has failed an Active read-only transaction.
ReadOnlyTxFailedByWrite ==
    /\ call.was = "active"
    /\ call.c.op \in Mutating
    /\ call.s \in Sessions
    /\ txn[call.s].tx.ro
    /\ txn[call.s].st = "failed"
    /\ txn[call.s].tx.err = "Wrap(25006)"

\* C18: GetEvents(fromEventID, limit) returns events of the transaction's
\* view, all above fromEventID, in ascending EventID order, at most limit of
\* them, leaving out only events above the last one returned and only when
\* limit events are returned; the ID returned is that of the last event
\* returned, and fromEventID when none is returned or the transaction is in
\* an error state.
GetEventsReturnsNextEvents ==
    (call.c.op = "GetEvents" /\ call.s \in Sessions)
      => LET t == txn[call.s].tx
             evs == call.out.events
             ids == {evs[i].eventid : i \in 1..Len(evs)}
         IN /\ t.err # Nil => evs = <<>>
            /\ \A i \in 1..Len(evs) : evs[i] \in t.work.events /\ evs[i].eventid > call.c.n
            /\ \A i, j \in 1..Len(evs) : i < j => evs[i].eventid < evs[j].eventid
            /\ Len(evs) <= call.c.lim
            /\ \A e \in t.work.events :
                 (e.eventid > call.c.n /\ e.eventid \notin ids)
                   => /\ Len(evs) = call.c.lim
                      /\ \A x \in ids : x < e.eventid
            /\ call.out.n = IF evs = <<>> THEN call.c.n ELSE evs[Len(evs)].eventid

\* GetEvents has returned limit events and left a later one for the next call.
GetEventsCutAtLimit ==
    /\ call.c.op = "GetEvents"
    /\ call.s \in Sessions
    /\ Len(call.out.events) = call.c.lim
    /\ \E e \in txn[call.s].tx.work.events : e.eventid > call.out.n

\* C19: the error a transaction stores for a native error of BeginTx, of the
\* engine's commit or passed to Rollback is nil for nil and for nil only,
\* NotFound for the no-rows error, AlreadyExists for code 23505, ErrRetry for
\* code 40001, and a wrapped error of the Generic class for any other.
ConvertErrorClasses ==
    (/\ call.s \in Sessions
     /\ \/ call.c.op = "Begin"
        \/ call.c.op = "Commit" /\ call.was = "active"
        \/ call.c.op = "Rollback" /\ call.native # "nil")
      => LET e == txn[call.s].tx.err
             n == call.native
         IN /\ (n = "nil") <=> (e = Nil)
            /\ n = "ErrNoRows" => e = "NotFound"
            /\ n = "23505" => e = "AlreadyExists"
            /\ n = "40001" => e = ErrRetry
            /\ n \notin {"nil", "ErrNoRows", "23505", "40001"}
                 => e \in {"Wrap(Canceled)", "Wrap(25006)", "Wrap(Other)"}

\* A no-rows error was passed to Rollback and is stored as NotFound.
NoRowsConverted ==
    /\ call.c.op = "Rollback"
    /\ call.native = "ErrNoRows"
    /\ call.s \in Sessions
    /\ txn[call.s].tx.err = "NotFound"

\* C20: a DeleteExpiredLeases that follows a DeleteExpiredLeases on the same
\* transaction at the same time leaves the transaction's leases, and the
\* transaction, as they were, and the transaction Active.
DeleteExpiredLeasesIdempotent ==
    [][\A s \in Sessions :
          (/\ txn[s].st = "active"
           /\ call.s = s
           /\ call.c.op = "DeleteExpiredLeases"
           /\ call'.c.op = "DeleteExpiredLeases"
           /\ txn'[s].calls = txn[s].calls + 1
           /\ now' = now)
            => /\ txn'[s].st = "active"
               /\ txn'[s].tx.work.leases = txn[s].tx.work.leases
               /\ txn'[s].tx = txn[s].tx]_vars

\* DeleteExpiredLeases was called twice in a row on a transaction and the
\* lease past its expiry that the database holds is gone from the
\* transaction's view.
DeletedExpiredTwice ==
    /\ call.c.op = "DeleteExpiredLeases"
    /\ call.again
    /\ call.s \in Sessions
    /\ txn[call.s].st = "active"
    /\ txn[call.s].tx.wrote
    /\ \E l \in db.leases : Lapsed(l, now) /\ l \notin txn[call.s].tx.work.leases

\* C21: sqlbk's Config.CheckAndSetDefaults returns BadParameter when Log,
\* Clock, Addr, TLS.CAFile, TLS.ClientKeyFile or TLS.ClientCertFile is unset;
\* otherwise it returns nil, an unset field has its default afterwards
\* (database "teleport", purge period 10 s, retry delay 250 ms, 2 idle and 50
\* open connections, idle time and lifetime 0, the default buffer size and
\* poll period), a field set to a positive value keeps it, and a second
\* application changes nothing.
CheckAndSetDefaultsContract ==
    [][(cfg'.n = cfg.n + 1 /\ cfg'.by = "sqlbk") =>
          LET c == cfg.c
              d == cfg'.c
              required == /\ c.Log /\ c.Clock /\ c.Addr # ""
                          /\ c.TLS.CAFile # "" /\ c.TLS.ClientKeyFile # ""
                          /\ c.TLS.ClientCertFile # ""
              filled(old, new, def) == /\ old = 0 => new = def
                                       /\ old > 0 => new = old
          IN /\ ~required => cfg'.err = "BadParameter"
             /\ required =>
                  /\ cfg'.err = Nil
                  /\ d.Database = IF c.Database = "" THEN "teleport" ELSE c.Database
                  /\ filled(c.PurgePeriod, d.PurgePeriod, 10000)
                  /\ filled(c.RetryDelayPeriod, d.RetryDelayPeriod, 250)
                  /\ filled(c.MaxIdleConns, d.MaxIdleConns, 2)
                  /\ filled(c.MaxOpenConns, d.MaxOpenConns, 50)
                  /\ filled(c.ConnMaxIdleTime, d.ConnMaxIdleTime, 0)
                  /\ filled(c.ConnMaxLifetime, d.ConnMaxLifetime, 0)
                  /\ filled(c.BufferSize, d.BufferSize, DefaultBufferCapacity)
                  /\ filled(c.PollStreamPeriod, d.PollStreamPeriod, DefaultPollStreamPeriod)
                  /\ d.Log = c.Log /\ d.Clock = c.Clock /\ d.Addr = c.Addr /\ d.TLS = c.TLS
             /\ (cfg.n >= 1 /\ cfg.err = Nil) => (cfg'.err = Nil /\ d = c)]_vars

\* A Config with unset and set fields after its second check.
ConfigCheckedTwice ==
    /\ cfg.n = 2 /\ cfg.by = "sqlbk" /\ cfg.err = Nil
    /\ cfg.in.PurgePeriod = 0 /\ cfg.c.PurgePeriod = 10000
    /\ cfg.in.Database = "" /\ cfg.c.Database = "teleport"
    /\ cfg.in.RetryDelayPeriod = 1 /\ cfg.c.RetryDelayPeriod = 1
    /\ cfg.in.MaxOpenConns = 1 /\ cfg.c.MaxOpenConns = 1

\* C22: the worker's cycles run one after the other: at no time are two of
\* its transactions (two polls, two purges, a poll and a purge) open at once,
\* and a transaction is open only while the worker is inside poll or purge.
OneSchedulerTxAtATime ==
    /\ obs.open <= 1
    /\ obs.open = 1 <=> wpc \in {"poll", "purge"}

\* A purge transaction open after poll cycles that delivered events, the clock
\* having moved on since the worker started.
PurgeOpenAfterLongPoll ==
    /\ wpc = "purge" /\ obs.open = 1
    /\ emitted # <<>>
    /\ now > 1

\* C23: no failure of a cycle ends the worker: whatever its outcome, a cycle
\* ends with run back at its select, where both tickers can be served again,
\* and run returns only from the select and only when closeCtx is done.
CycleErrorsKeepWorker ==
    /\ [](wpc = "done" => closed)
    /\ [](wpc = "select" => (ENABLED PollBegin /\ ENABLED PurgeBegin))
    /\ [][/\ (wpc \in {"poll", "purge", "emit"} /\ wpc' # wpc)
               => wpc' \in {"select", "emit"}
          /\ (wpc' = "done" /\ wpc # "done") => (wpc = "select" /\ closed)]_vars

\* The worker at its select after two failing cycles in a row, not shut down.
WaitingAfterErrors ==
    /\ wpc = "select" /\ ~closed
    /\ obs.streak = MaxStreak
    /\ loggedError

\* C24 (as stated): after closeCtx is done the worker eventually returns, and
\* from then on no step of a cycle commits a transaction or passes events to
\* the notification buffer.
ShutdownStopsCommitAndEmit ==
    /\ closed ~> (wpc = "done")
    /\ [][closed => (db' = db /\ history' = history /\ emitted' = emitted)]_vars

\* C24 (amended): after closeCtx is done the worker eventually returns, and
\* from then on no cycle commits a transaction and no cycle comes to pass
\* events to the buffer, except that a poll cycle whose Commit had succeeded
\* when closeCtx was cancelled still passes the events it fetched.
ShutdownStopsCommit ==
    /\ closed ~> (wpc = "done")
    /\ [][closed => /\ db' = db /\ history' = history
                    /\ wpc # "emit" => (wpc' # "emit" /\ emitted' = emitted)
                    /\ wpc = "emit" => emitted' = emitted \o wtx.events]_vars

\* A cycle begun by a tick that was selected after closeCtx was cancelled.
TickServedAfterShutdown ==
    /\ closed
    /\ wpc \in {"poll", "purge"}
    /\ obs.begin = "Canceled"

\* C25: run writes the error of a cycle to the log exactly when the cycle is
\* the first failing one after the start of the worker or after a successful
\* cycle; later failures of the same unbroken run of failing cycles, polls and
\* purges alike, are not logged, and a successful cycle of either kind ends
\* the run.
LoggedOncePerStreak ==
    [][(wpc \in {"poll", "purge", "emit"} /\ wpc' = "select") =>
          /\ obs'.logged <=> obs'.streak = 1
          /\ wpc = "emit" => obs'.streak = 0
          /\ obs'.streak = 0 <=> ~loggedError'
          /\ obs'.streak > 0 => obs'.streak >= obs.streak]_vars

\* A second failing cycle in a row, which was not logged.
SecondFailureNotLogged ==
    /\ wpc = "select"
    /\ obs.streak = MaxStreak
    /\ ~obs.logged

PollDeliversInBatches ==
    /\ [][/\ (wpc = "emit" /\ wpc' = "select") =>
                /\ emitted' = emitted \o wtx.events
                /\ Len(emitted') - Len(emitted) <= BufferSize \div 2
          /\ (/\ wpc = "select" /\ wpc' = "poll" /\ wtx'.tx.err = Nil
              /\ \E e \in db.events : e.eventid > eventID) =>
                wtx'.events # <<>>
          /\ (wpc = "poll" /\ wpc' = "emit") =>
                (wtx'.events = wtx.events /\ eventID' = eventID)]_vars
    /\ []<><<PollEmit>>_vars =>
          (({e \in db.events : e.eventid > eventID} # {})
              ~> ({e \in db.events : e.eventid > eventID} = {}))

\* A poll cycle about to pass on one event of a backlog of two.
BacklogLargerThanBatch ==
    /\ wpc = "emit"
    /\ Cardinality({e \in db.events : e.eventid > eventID}) = 2
    /\ Len(wtx.events) = BufferSize \div 2

\* C28: at any clock reading t the leases DeleteExpiredLeases removes are
\* exactly those GetExpiredLeases returns (expires set and <= t, a lease whose
\* expires equals t included), and exactly those are absent for LeaseExists
\* and GetItem.
ExpirySetsAgree ==
    [][\A s \in Sessions :
          (/\ txn[s].st = "active"
           /\ call'.s = s
           /\ txn'[s].calls = txn[s].calls + 1)
            => LET leases == txn[s].tx.work.leases
                   due == {l \in leases : l.expires # NoExpiry /\ l.expires <= now}
                   op == call'.c.op
                   k == call'.c.k
               IN /\ (op = "DeleteExpiredLeases" /\ ~txn[s].tx.ro)
                        => leases \ txn'[s].tx.work.leases = due
                  /\ op = "GetExpiredLeases" => call'.out.rows = due
                  /\ op = "LeaseExists"
                        => (call'.out.ok <=> \E l \in leases \ due : l.key = k)
                  /\ op = "GetItem"
                        => (call'.out.rows # {} => \E l \in leases \ due : l.key = k)]_vars

\* C29: when start's read of the last event ID fails, at Begin, at the query
\* or at Commit, start returns a ConnectionProblem error, buf.SetInit is not
\* called and the worker is not launched: no cycle runs afterwards, and start
\* makes no second attempt.
FailedStartLaunchesNothing ==
    /\ [](LET s == obs.start
              failed == s.begin # "nil" \/ s.query # "none" \/ s.commit # "nil"
          IN /\ failed => (wpc = "failed" /\ s.err = "ConnectionProblem")
             /\ wpc = "failed" =>
                  /\ failed
                  /\ ~bufInit
                  /\ obs.open = 0 /\ wtx = NoCycle
                  /\ emitted = <<>> /\ eventID = 0
             /\ wpc \notin {"init", "failed"} => (s.err = Nil /\ bufInit))
    /\ [][wpc = "failed" =>
             (wpc' = "failed" /\ obs' = obs /\ db' = db /\ wtx' = wtx /\ wr' = wr)]_vars

\* start has failed and the clock has moved on with nothing running.
StartFailedForGood ==
    /\ wpc = "failed"
    /\ now = MaxTime
    /\ obs.start.err = "ConnectionProblem"
    /\ db.events # {}

\* C30: Begin hands the worker a transaction also when BeginTx fails: that
\* transaction is Failed with the translated error of BeginTx, the calls of
\* the poll or purge cycle made on it write and fetch nothing, its Commit
\* returns that error whatever the engine would answer, and the cycle ends with
\* the database, the committed events, the emitted events and the watermark
\* unchanged and an error for run.
FailedBeginCycleIsNoOp ==
    /\ []((wpc \in {"poll", "purge"} /\ obs.begin # "nil") =>
             /\ wtx.tx.err = convertError(obs.begin)
             /\ wtx.tx.err # Nil
             /\ ~wtx.tx.wrote
             /\ wtx.events = <<>>
             /\ \A native \in Native : TxCommit(wtx.tx, native).err = convertError(obs.begin))
    /\ [][(wpc \in {"poll", "purge"} /\ obs.begin # "nil" /\ wpc' # wpc) =>
             /\ wpc' = "select"
             /\ db' = db
             /\ history' = history
             /\ emitted' = emitted
             /\ eventID' = eventID
             /\ loggedError'
             /\ obs'.streak > 0]_vars

\* A poll cycle on a transaction that failed to begin, with an expired lease
\* to report and an event to deliver in the table.
PollOnFailedBegin ==
    /\ wpc = "poll"
    /\ obs.begin = "Other"
    /\ ~closed
    /\ \E l \in db.leases : Expired(l, now)
    /\ \E e \in db.events : e.eventid > eventID

\* C31: once run holds it, the worker's watermark never decreases, is changed
\* only by the return of a poll cycle that committed and emitted (never by a
\* purge cycle, a failed poll cycle, a writer or Close), and always equals the
\* maximum of the startup seed and the EventIDs passed to the buffer.
WatermarkIsSeedOrLastDelivered ==
    /\ [](wpc \notin {"init", "failed"} =>
             eventID = Max({seed} \cup {emitted[i].eventid : i \in DOMAIN emitted}))
    /\ [][wpc # "init" =>
             /\ eventID' >= eventID
             /\ eventID' # eventID =>
                    /\ wpc = "emit" /\ wpc' = "select"
                    /\ wtx.events # <<>>
                    /\ eventID' = wtx.events[Len(wtx.events)].eventid
                    /\ ~loggedError']_vars

\* The watermark past a non-zero seed after a delivery, with a failed cycle
\* since the delivery and a purge cycle about to commit.
WatermarkMovedPastSeed ==
    /\ wpc = "purge"
    /\ seed >= 1
    /\ eventID > seed
    /\ Len(emitted) >= 1
    /\ loggedError
    /\ wtx.tx.err = Nil /\ wtx.tx.wrote

====
